---------------------------- MODULE Spec2Model ----------------------------
(***************************************************************************)
(* A model of redis_helpers: the connection manager                        *)
(* (redis_connectors.py) and the key-value operations (redis_helpers.py).  *)
(*                                                                         *)
(* Four specifications share the definitions below:                        *)
(*   Spec      one client running the key-value operations, call after     *)
(*             call, one store command per step, any command may fail;     *)
(*   SpecConc  two clients running set_single and delete_matching, their   *)
(*             store commands interleaved;                                 *)
(*   SpecRT    one client running set/get with value_format="json";        *)
(*   SpecConn  a caller acquiring connections, directly and through the    *)
(*             decorator.                                                  *)
(***************************************************************************)
EXTENDS Integers, Sequences, FiniteSets, TLC

VARIABLES
    store,        \* the database: key bytes -> entry
    pc,           \* per client: position inside the running helper
    op,           \* per client: the helper being run and its arguments
    local,        \* per client: the helper's local variables
    result,       \* per client: what the helper gave its caller
    calls,        \* per client: helpers started so far
    interfered,   \* per client: another client changed the store during the call
    prev,         \* SpecRT: the call client 1 finished last, and its result
    cpc,          \* connection caller: position inside the running call
    cargs,        \* connection caller: <<>> or <<the running call's arguments>>
    ctorLog,      \* every call of the redis.StrictRedis constructor, in order
    probeLog,     \* every keys() probe, in order
    unitLog,      \* every invocation of a decorated function, in order
    cstart,       \* lengths of ctorLog, probeLog, unitLog when the call began
    cresult,      \* <<>> or <<what the call gave its caller>>
    ncalls        \* connection calls started so far

kvVars == <<store, pc, op, local, result, calls, interfered, prev>>
connVars == <<cpc, cargs, ctorLog, probeLog, unitLog, cstart, cresult, ncalls>>
vars == <<store, pc, op, local, result, calls, interfered, prev,
          cpc, cargs, ctorLog, probeLog, unitLog, cstart, cresult, ncalls>>

(***************************************************************************)
(* Bounds.                                                                 *)
(***************************************************************************)
MaxCalls == 2
MaxConcCalls == 1
MaxList == 1
MaxConnCalls == 2

(***************************************************************************)
(* Python values, as records: t is the type, and with it n the number     *)
(* (int, bool), s the characters (str), b the bytes (bytes), items the     *)
(* elements (list), or ks the keys and items the values in the same order  *)
(* (dict).                                                                 *)
(***************************************************************************)
PyNone == [t |-> "none"]
PyBool(x) == [t |-> "bool", n |-> IF x THEN 1 ELSE 0]
PyInt(i) == [t |-> "int", n |-> i]
PyStr(cs) == [t |-> "str", s |-> cs]
PyBytes(bs) == [t |-> "bytes", b |-> bs]
PyList(xs) == [t |-> "list", items |-> xs]
PyDict(keys, xs) == [t |-> "dict", ks |-> keys, items |-> xs]

\* bool(v), as `if existing_value` and `if password` take it.
Truthy(v) ==
    CASE v.t = "none" -> FALSE
      [] v.t = "bool" -> v.n = 1
      [] v.t = "int" -> v.n # 0
      [] v.t = "str" -> v.s # <<>>
      [] v.t = "bytes" -> v.b # <<>>
      [] v.t = "list" -> v.items # <<>>
      [] v.t = "dict" -> v.ks # <<>>

(***************************************************************************)
(* Text: characters are one-character strings, bytes are numbers.          *)
(***************************************************************************)
Chars == {"a", "b", "v", "n", "u", "l", "t", "r", "e", "f", "s",
          "0", "1", "2", "3", "4", "5", "6", "7", "8", "9",
          ":", "*", "?", ",", " ", "[", "]", "{", "}", "\"", "\\"}

\* The code point of a character (all of them ASCII).
Ord(c) ==
    CASE c = "a" -> 97 [] c = "b" -> 98 [] c = "v" -> 118 [] c = "n" -> 110
      [] c = "u" -> 117 [] c = "l" -> 108 [] c = "t" -> 116 [] c = "r" -> 114
      [] c = "e" -> 101 [] c = "f" -> 102 [] c = "s" -> 115
      [] c = "0" -> 48 [] c = "1" -> 49 [] c = "2" -> 50 [] c = "3" -> 51
      [] c = "4" -> 52 [] c = "5" -> 53 [] c = "6" -> 54 [] c = "7" -> 55
      [] c = "8" -> 56 [] c = "9" -> 57
      [] c = ":" -> 58 [] c = "*" -> 42 [] c = "?" -> 63 [] c = "," -> 44
      [] c = " " -> 32 [] c = "[" -> 91 [] c = "]" -> 93 [] c = "{" -> 123
      [] c = "}" -> 125 [] c = "\"" -> 34 [] c = "\\" -> 92

Chr(code) == CHOOSE c \in Chars : Ord(c) = code

\* str.encode("utf-8"): one byte per ASCII character.
RECURSIVE Utf8Encode(_)
Utf8Encode(cs) == IF cs = <<>> THEN <<>> ELSE <<Ord(Head(cs))>> \o Utf8Encode(Tail(cs))

\* bytes.decode("utf-8") of ASCII bytes.
RECURSIVE Utf8Decode(_)
Utf8Decode(bs) == IF bs = <<>> THEN <<>> ELSE <<Chr(Head(bs))>> \o Utf8Decode(Tail(bs))

(***************************************************************************)
(* json.dumps with its default separators (", " and ": ").                 *)
(***************************************************************************)
RECURSIVE Digits(_)
Digits(i) ==
    LET d == <<"0", "1", "2", "3", "4", "5", "6", "7", "8", "9">>[(i % 10) + 1]
    IN IF i < 10 THEN <<d>> ELSE Append(Digits(i \div 10), d)

RECURSIVE JsonEscape(_)
JsonEscape(cs) ==
    IF cs = <<>> THEN <<>>
    ELSE LET c == Head(cs)
         IN (IF c = "\"" \/ c = "\\" THEN <<"\\", c>> ELSE <<c>>) \o JsonEscape(Tail(cs))

JsonQuote(cs) == <<"\"">> \o JsonEscape(cs) \o <<"\"">>

RECURSIVE JsonDumps(_)
RECURSIVE JsonDumpsItems(_, _, _)
\* The comma-separated elements from index i on; ks is <<>> for a list.
JsonDumpsItems(ks, xs, i) ==
    IF i > Len(xs) THEN <<>>
    ELSE (IF i > 1 THEN <<",", " ">> ELSE <<>>)
         \o (IF ks # <<>> THEN JsonQuote(ks[i]) \o <<":", " ">> ELSE <<>>)
         \o JsonDumps(xs[i])
         \o JsonDumpsItems(ks, xs, i + 1)

JsonDumps(v) ==
    CASE v.t = "none" -> <<"n", "u", "l", "l">>
      [] v.t = "bool" -> IF v.n = 1 THEN <<"t", "r", "u", "e">>
                                    ELSE <<"f", "a", "l", "s", "e">>
      [] v.t = "int" -> Digits(v.n)
      [] v.t = "str" -> JsonQuote(v.s)
      [] v.t = "list" -> <<"[">> \o JsonDumpsItems(<<>>, v.items, 1) \o <<"]">>
      [] v.t = "dict" -> <<"{">> \o JsonDumpsItems(v.ks, v.items, 1) \o <<"}">>

(***************************************************************************)
(* json.loads: a recursive-descent parser.  Every parser gives             *)
(* [ok, val, pos]: whether it parsed, the value, the next position.        *)
(***************************************************************************)
ParseFail == [ok |-> FALSE, val |-> PyNone, pos |-> 0]
Parsed(v, p) == [ok |-> TRUE, val |-> v, pos |-> p]

RECURSIVE SkipWs(_, _)
SkipWs(cs, i) == IF i <= Len(cs) /\ cs[i] = " " THEN SkipWs(cs, i + 1) ELSE i

IsDigit(c) == c \in {"0", "1", "2", "3", "4", "5", "6", "7", "8", "9"}
DigitVal(c) == Ord(c) - Ord("0")

RECURSIVE ParseInt(_, _, _)
ParseInt(cs, i, acc) ==
    IF i <= Len(cs) /\ IsDigit(cs[i])
    THEN ParseInt(cs, i + 1, acc * 10 + DigitVal(cs[i]))
    ELSE Parsed(PyInt(acc), i)

\* From the character after the opening quote.
RECURSIVE ParseStr(_, _, _)
ParseStr(cs, i, acc) ==
    IF i > Len(cs) THEN ParseFail
    ELSE IF cs[i] = "\"" THEN Parsed(PyStr(acc), i + 1)
    ELSE IF cs[i] = "\\"
         THEN IF i + 1 <= Len(cs) /\ (cs[i + 1] = "\"" \/ cs[i + 1] = "\\")
              THEN ParseStr(cs, i + 2, Append(acc, cs[i + 1]))
              ELSE ParseFail
    ELSE ParseStr(cs, i + 1, Append(acc, cs[i]))

HasWord(cs, i, w) == i + Len(w) - 1 <= Len(cs) /\ SubSeq(cs, i, i + Len(w) - 1) = w

RECURSIVE ParseValue(_, _)
RECURSIVE ParseList(_, _, _)
RECURSIVE ParseDict(_, _, _, _)

\* From after "[" or after a ","; acc holds the elements read so far.
ParseList(cs, i0, acc) ==
    LET i == SkipWs(cs, i0)
    IN IF i > Len(cs) THEN ParseFail
       ELSE IF cs[i] = "]" /\ acc = <<>> THEN Parsed(PyList(acc), i + 1)
       ELSE LET e == ParseValue(cs, i)
                j == SkipWs(cs, e.pos)
            IN IF ~e.ok \/ j > Len(cs) THEN ParseFail
               ELSE IF cs[j] = "," THEN ParseList(cs, j + 1, Append(acc, e.val))
               ELSE IF cs[j] = "]" THEN Parsed(PyList(Append(acc, e.val)), j + 1)
               ELSE ParseFail

\* From after "{" or after a ","; a later pair of a repeated key replaces
\* the earlier one, as in a Python dict.
ParseDict(cs, i0, ks, xs) ==
    LET i == SkipWs(cs, i0)
    IN IF i > Len(cs) THEN ParseFail
       ELSE IF cs[i] = "}" /\ ks = <<>> THEN Parsed(PyDict(ks, xs), i + 1)
       ELSE IF cs[i] # "\"" THEN ParseFail
       ELSE LET k == ParseStr(cs, i + 1, <<>>)
                c == SkipWs(cs, k.pos)
            IN IF ~k.ok \/ c > Len(cs) THEN ParseFail
               ELSE IF cs[c] # ":" THEN ParseFail
               ELSE LET e == ParseValue(cs, c + 1)
                        j == SkipWs(cs, e.pos)
                        at == {x \in 1..Len(ks) : ks[x] = k.val.s}
                        ks2 == IF at = {} THEN Append(ks, k.val.s) ELSE ks
                        xs2 == IF at = {} THEN Append(xs, e.val)
                               ELSE [xs EXCEPT ![CHOOSE x \in at : TRUE] = e.val]
                    IN IF ~e.ok \/ j > Len(cs) THEN ParseFail
                       ELSE IF cs[j] = "," THEN ParseDict(cs, j + 1, ks2, xs2)
                       ELSE IF cs[j] = "}" THEN Parsed(PyDict(ks2, xs2), j + 1)
                       ELSE ParseFail

ParseValue(cs, i0) ==
    LET i == SkipWs(cs, i0)
    IN IF i > Len(cs) THEN ParseFail
       ELSE IF HasWord(cs, i, <<"n", "u", "l", "l">>) THEN Parsed(PyNone, i + 4)
       ELSE IF HasWord(cs, i, <<"t", "r", "u", "e">>) THEN Parsed(PyBool(TRUE), i + 4)
       ELSE IF HasWord(cs, i, <<"f", "a", "l", "s", "e">>) THEN Parsed(PyBool(FALSE), i + 5)
       ELSE IF cs[i] = "0" THEN Parsed(PyInt(0), i + 1)
       ELSE IF IsDigit(cs[i]) THEN ParseInt(cs, i, 0)
       ELSE IF cs[i] = "\"" THEN ParseStr(cs, i + 1, <<>>)
       ELSE IF cs[i] = "[" THEN ParseList(cs, i + 1, <<>>)
       ELSE IF cs[i] = "{" THEN ParseDict(cs, i + 1, <<>>, <<>>)
       ELSE ParseFail

\* json.loads(v): [ok, val]; not ok is the exception it raises (a TypeError
\* for a value that is neither str nor bytes, a JSONDecodeError otherwise).
JsonLoads(v) ==
    LET cs == IF v.t = "bytes" THEN Utf8Decode(v.b) ELSE v.s
        r == ParseValue(cs, 1)
    IN IF v.t \notin {"str", "bytes"} THEN [ok |-> FALSE, val |-> PyNone]
       ELSE IF r.ok /\ SkipWs(cs, r.pos) > Len(cs) THEN [ok |-> TRUE, val |-> r.val]
       ELSE [ok |-> FALSE, val |-> PyNone]

(***************************************************************************)
(* The store, as the redis commands the helpers issue see it.  An entry is *)
(* absent, a string (v holds its bytes) or a list (v holds the elements,   *)
(* head first).  Keys are bytes on the wire and in the replies.            *)
(***************************************************************************)
Clients == {1, 2}

KeyA1 == <<"a", ":", "1">>
KeyA2 == <<"a", ":", "2">>
KeyB1 == <<"b", ":", "1">>
Keys == {KeyA1, KeyA2, KeyB1}
\* The order in which the store lists its keys.
KeyOrder == <<Utf8Encode(KeyA1), Utf8Encode(KeyA2), Utf8Encode(KeyB1)>>
WireKeys == {KeyOrder[i] : i \in 1..Len(KeyOrder)}

PatAll == <<"*">>
PatA == <<"a", ":", "*">>
PatB1 == <<"b", ":", "1">>
PatQ == <<"?", ":", "2">>
PatNone == <<"v", "*">>
Patterns == {PatAll, PatA, PatB1, PatQ, PatNone}

NoEntry == [t |-> "none", v |-> <<>>]
StrEntry(bs) == [t |-> "string", v |-> <<bs>>]
ListEntry(elems) == [t |-> "list", v |-> elems]

EmptyStore == [k \in WireKeys |-> NoEntry]

\* The glob match of KEYS: * is any run of bytes, ? is any one byte.
RECURSIVE GlobMatch(_, _)
GlobMatch(pat, k) ==
    IF pat = <<>> THEN k = <<>>
    ELSE IF Head(pat) = Ord("*")
         THEN GlobMatch(Tail(pat), k) \/ (k # <<>> /\ GlobMatch(pat, Tail(k)))
    ELSE IF Head(pat) = Ord("?")
         THEN k # <<>> /\ GlobMatch(Tail(pat), Tail(k))
    ELSE k # <<>> /\ Head(k) = Head(pat) /\ GlobMatch(Tail(pat), Tail(k))

\* KEYS pattern: the keys present that match, as bytes.
RedisKeys(st, pat) ==
    SelectSeq(KeyOrder, LAMBDA k : st[k].t # "none" /\ GlobMatch(pat, k))

\* GET key: None for an absent key, the bytes of a string, WRONGTYPE for a list.
RedisGet(st, k) ==
    CASE st[k].t = "none" -> [ok |-> TRUE, val |-> PyNone]
      [] st[k].t = "string" -> [ok |-> TRUE, val |-> PyBytes(st[k].v[1])]
      [] st[k].t = "list" -> [ok |-> FALSE, val |-> PyNone]

\* SET key value NX: a write that keeps an existing entry.
RedisSetNX(st, k, bs) == IF st[k].t = "none" THEN [st EXCEPT ![k] = StrEntry(bs)] ELSE st

\* SET key value: replaces whatever the key held.
RedisSet(st, k, bs) == [st EXCEPT ![k] = StrEntry(bs)]

\* LPUSH key value: WRONGTYPE for a string, else the new head of the list.
RedisLpush(st, k, bs) ==
    IF st[k].t = "string" THEN [ok |-> FALSE, st |-> st]
    ELSE [ok |-> TRUE, st |-> [st EXCEPT ![k] = ListEntry(<<bs>> \o st[k].v)]]

RedisFlushdb(st) == EmptyStore

\* MULTI, DEL k1, ..., DEL kn, EXEC: the replies (1 deleted, 0 no such key)
\* and the store afterwards.
RECURSIVE RedisExecDeletes(_, _)
RedisExecDeletes(st, ks) ==
    IF ks = <<>> THEN [values |-> <<>>, st |-> st]
    ELSE LET k == Head(ks)
             rest == RedisExecDeletes([st EXCEPT ![k] = NoEntry], Tail(ks))
         IN [values |-> <<IF st[k].t = "none" THEN 0 ELSE 1>> \o rest.values,
             st |-> rest.st]

\* What the client puts on the wire for a value: bytes as they are, a str
\* encoded; anything else is refused with a DataError.
WireValue(v) ==
    CASE v.t = "bytes" -> [ok |-> TRUE, b |-> v.b]
      [] v.t = "str" -> [ok |-> TRUE, b |-> Utf8Encode(v.s)]
      [] OTHER -> [ok |-> FALSE, b |-> <<>>]

\* How a store command can go: it succeeds, it raises before the store acted
\* (no connection), or it raises after the store acted (the reply was lost).
ReadFaults == {"ok", "before"}
WriteFaults == {"ok", "before", "after"}

(***************************************************************************)
(* The helpers' own computations.                                          *)
(***************************************************************************)
\* get_keys_matching_pattern without the pattern: every key.
get_keys_ignoring_pattern(st, pattern) == RedisKeys(st, Utf8Encode(PatAll))

get_keys_matching_pattern(st, pattern) == RedisKeys(st, Utf8Encode(pattern))

\* A batch rebuilt from the store when it runs.
PipeDeletesAtExec(st, pattern, keys) == get_keys_matching_pattern(st, pattern)

\* for key in keys: pipe.delete(key) -- the keys of the batch.
PipeDeletes(st, pattern, keys) == keys

\* A test by identity: no integer reply is the object False.
FalseIsIn(values) == FALSE

\* `False in values`: Python compares with ==, and 0 == False.
FalseIn(values) == \E i \in 1..Len(values) : values[i] = 0

\* `if existing_value and not overwrite`
Refuses(existing, overwrite) == Truthy(existing) /\ ~overwrite

\* value_format, then value_encode: [ok, val], not ok for a value with no
\* .encode (an AttributeError).
EncodePipeline(value, fmt, enc) ==
    LET v1 == IF fmt = "json" THEN PyStr(JsonDumps(value)) ELSE value
    IN IF ~enc THEN [ok |-> TRUE, val |-> v1]
       ELSE IF v1.t = "str" THEN [ok |-> TRUE, val |-> PyBytes(Utf8Encode(v1.s))]
       ELSE [ok |-> FALSE, val |-> PyNone]

\* value_format before value_decode.
DecodePipelineSwapped(value, fmt, dec) ==
    LET l == JsonLoads(value)
        v1 == IF fmt = "json" THEN l.val ELSE value
    IN IF fmt = "json" /\ ~l.ok THEN [ok |-> FALSE, val |-> PyNone]
       ELSE IF ~dec THEN [ok |-> TRUE, val |-> v1]
       ELSE IF v1.t = "bytes" THEN [ok |-> TRUE, val |-> PyStr(Utf8Decode(v1.b))]
       ELSE [ok |-> FALSE, val |-> PyNone]

\* value_decode, then value_format: [ok, val], not ok for a value with no
\* .decode (None, a str) or one json.loads rejects.
DecodePipeline(value, fmt, dec) ==
    LET d == IF ~dec THEN [ok |-> TRUE, val |-> value]
             ELSE IF value.t = "bytes" THEN [ok |-> TRUE, val |-> PyStr(Utf8Decode(value.b))]
             ELSE [ok |-> FALSE, val |-> PyNone]
    IN IF ~d.ok THEN d
       ELSE IF fmt = "json" THEN JsonLoads(d.val)
       ELSE d

(***************************************************************************)
(* A client's call: op is the helper and its arguments, local the helper's *)
(* variables (fault: a store command of this call failed), result what the *)
(* caller got.                                                             *)
(***************************************************************************)
NoOp == [kind |-> "none", key |-> <<>>, pattern |-> <<>>, value |-> PyNone,
         overwrite |-> FALSE, fmt |-> "none", enc |-> FALSE, dec |-> FALSE]
FlushOp == [NoOp EXCEPT !.kind = "flush"]
DeleteOp(pattern) == [NoOp EXCEPT !.kind = "delete", !.pattern = pattern]
SetOp(key, value, overwrite, fmt, enc) ==
    [NoOp EXCEPT !.kind = "set", !.key = key, !.value = value,
                 !.overwrite = overwrite, !.fmt = fmt, !.enc = enc]
GetOp(key, fmt, dec) == [NoOp EXCEPT !.kind = "get", !.key = key, !.fmt = fmt, !.dec = dec]
PushOp(key, value, fmt, enc) ==
    [NoOp EXCEPT !.kind = "push", !.key = key, !.value = value, !.fmt = fmt, !.enc = enc]

NoLocal == [existing |-> PyNone, wire |-> PyNone, keys |-> <<>>, values |-> <<>>,
            fault |-> FALSE]

Pending == [ret |-> "pending", val |-> PyNone]
RetTrue == [ret |-> "true", val |-> PyNone]
RetFalse == [ret |-> "false", val |-> PyNone]
Raised == [ret |-> "raised", val |-> PyNone]
RetValue(v) == [ret |-> "value", val |-> v]

Start(c) == pc[c] = "idle"

Goto(c, p, o, l, r) ==
    /\ pc' = [pc EXCEPT ![c] = p]
    /\ op' = [op EXCEPT ![c] = o]
    /\ local' = [local EXCEPT ![c] = l]
    /\ result' = [result EXCEPT ![c] = r]

Counted(c) == calls' = [calls EXCEPT ![c] = @ + 1]

(***************************************************************************)
(* The key-value operations, one store command per step.                   *)
(***************************************************************************)
\* run_flushdb: FLUSHDB inside the try.
run_flushdb(c) ==
    /\ Start(c)
    /\ Counted(c)
    /\ \E fault \in WriteFaults :
        /\ store' = IF fault = "before" THEN store ELSE RedisFlushdb(store)
        /\ Goto(c, "done", FlushOp, [NoLocal EXCEPT !.fault = (fault # "ok")],
                IF fault = "ok" THEN RetTrue ELSE RetFalse)

\* delete_keys_matching_pattern up to the try: the enumeration (outside the
\* try) and the batch built from it.
delete_keys_matching_pattern_keys(c, pattern) ==
    /\ Start(c)
    /\ Counted(c)
    /\ UNCHANGED store
    /\ \E fault \in ReadFaults :
        IF fault # "ok"
        THEN Goto(c, "done", DeleteOp(pattern), [NoLocal EXCEPT !.fault = TRUE], Raised)
        ELSE Goto(c, "del_exec", DeleteOp(pattern),
                  [NoLocal EXCEPT !.keys = get_keys_matching_pattern(store, pattern)],
                  Pending)

\* delete_keys_matching_pattern from the try on: the batch runs as one
\* transaction, then `False in values`.  An empty batch sends nothing:
\* execute() returns [] at once and cannot fail.
delete_keys_matching_pattern_execute(c) ==
    /\ pc[c] = "del_exec"
    /\ UNCHANGED calls
    /\ \E fault \in WriteFaults :
        LET batch == PipeDeletes(store, op[c].pattern, local[c].keys)
            r == RedisExecDeletes(store, batch)
        IN /\ batch = <<>> => fault = "ok"
           /\ store' = IF fault = "before" THEN store ELSE r.st
           /\ IF fault # "ok"
              THEN Goto(c, "done", op[c], [local[c] EXCEPT !.fault = TRUE], RetFalse)
              ELSE Goto(c, "done", op[c], [local[c] EXCEPT !.values = r.values],
                        IF FalseIn(r.values) THEN RetFalse ELSE RetTrue)

\* set_value_of_single_value_key up to the try: the GET (outside the try),
\* the overwrite check and the encoding.
set_value_of_single_value_key_get(c, key, value, overwrite, fmt, enc) ==
    /\ Start(c)
    /\ Counted(c)
    /\ UNCHANGED store
    /\ \E fault \in ReadFaults :
        LET o == SetOp(key, value, overwrite, fmt, enc)
            g == RedisGet(store, Utf8Encode(key))
            e == EncodePipeline(value, fmt, enc)
        IN IF fault # "ok" \/ ~g.ok
           THEN Goto(c, "done", o, [NoLocal EXCEPT !.fault = TRUE], Raised)
           ELSE IF Refuses(g.val, overwrite)
           THEN Goto(c, "done", o, [NoLocal EXCEPT !.existing = g.val], RetFalse)
           ELSE IF ~e.ok
           THEN Goto(c, "done", o, [NoLocal EXCEPT !.existing = g.val], Raised)
           ELSE Goto(c, "set_write", o,
                     [NoLocal EXCEPT !.existing = g.val, !.wire = e.val], Pending)

\* set_value_of_single_value_key from the try on: the SET.
set_value_of_single_value_key_set(c) ==
    /\ pc[c] = "set_write"
    /\ UNCHANGED calls
    /\ \E fault \in WriteFaults :
        LET w == WireValue(local[c].wire)
            failed == fault # "ok" \/ ~w.ok
        IN /\ store' = IF fault = "before" \/ ~w.ok THEN store
                       ELSE RedisSet(store, Utf8Encode(op[c].key), w.b)
           /\ Goto(c, "done", op[c], [local[c] EXCEPT !.fault = failed],
                   IF failed THEN RetFalse ELSE RetTrue)

\* get_value_of_single_value_key: nothing is caught.
get_value_of_single_value_key(c, key, fmt, dec) ==
    /\ Start(c)
    /\ Counted(c)
    /\ UNCHANGED store
    /\ \E fault \in ReadFaults :
        LET g == RedisGet(store, Utf8Encode(key))
            d == DecodePipeline(g.val, fmt, dec)
        IN IF fault # "ok" \/ ~g.ok
           THEN Goto(c, "done", GetOp(key, fmt, dec), [NoLocal EXCEPT !.fault = TRUE], Raised)
           ELSE IF ~d.ok
           THEN Goto(c, "done", GetOp(key, fmt, dec), NoLocal, Raised)
           ELSE Goto(c, "done", GetOp(key, fmt, dec), NoLocal, RetValue(d.val))

\* add_value_to_list_key: the encoding, then LPUSH inside the try.
add_value_to_list_key(c, key, value, fmt, enc) ==
    /\ Start(c)
    /\ Counted(c)
    /\ Len(store[Utf8Encode(key)].v) < MaxList \/ store[Utf8Encode(key)].t # "list"
    /\ \E fault \in WriteFaults :
        LET o == PushOp(key, value, fmt, enc)
            e == EncodePipeline(value, fmt, enc)
            w == WireValue(e.val)
            r == RedisLpush(store, Utf8Encode(key), w.b)
            failed == fault # "ok" \/ ~w.ok \/ ~r.ok
        IN IF ~e.ok
           THEN UNCHANGED store /\ Goto(c, "done", o, NoLocal, Raised)
           ELSE /\ store' = IF fault = "before" \/ ~w.ok THEN store ELSE r.st
                /\ Goto(c, "done", o, [NoLocal EXCEPT !.fault = failed],
                        IF failed THEN RetFalse ELSE RetTrue)

\* The caller takes the result; the client is free for its next call.
Return(c) ==
    /\ pc[c] = "done"
    /\ Goto(c, "idle", NoOp, NoLocal, Pending)
    /\ UNCHANGED <<store, calls>>

\* Whether another client changed the store while a call of d was between
\* two store commands.
Interference(c) ==
    interfered' = [d \in Clients |->
        IF d = c THEN (pc'[c] # "idle" /\ pc[c] # "idle" /\ interfered[c])
        ELSE interfered[d] \/ (pc[d] \in {"set_write", "del_exec"} /\ store' # store)]

(***************************************************************************)
(* Spec: two clients, plain string values, every helper.                   *)
(***************************************************************************)
StrEmpty == PyStr(<<>>)
StrV1 == PyStr(<<"v", "1">>)
StrV2 == PyStr(<<"v", "2">>)
PlainValues == {StrEmpty, StrV1, StrV2}
PushValues == {StrV1}

\* The stores the clients may find: every key absent, a string or a list.
InitEntries ==
    {NoEntry} \cup {StrEntry(Utf8Encode(v.s)) : v \in PlainValues}
              \cup {ListEntry(<<Utf8Encode(v.s)>>) : v \in PushValues}

KvInit ==
    /\ pc = [c \in Clients |-> "idle"]
    /\ op = [c \in Clients |-> NoOp]
    /\ local = [c \in Clients |-> NoLocal]
    /\ result = [c \in Clients |-> Pending]
    /\ calls = [c \in Clients |-> 0]
    /\ interfered = [c \in Clients |-> FALSE]
    /\ prev = <<>>

ConnIdle ==
    /\ cpc = "idle"
    /\ cargs = <<>>
    /\ ctorLog = <<>>
    /\ probeLog = <<>>
    /\ unitLog = <<>>
    /\ cstart = <<0, 0, 0>>
    /\ cresult = <<>>
    /\ ncalls = 0

Init ==
    /\ store \in [WireKeys -> InitEntries]
    /\ KvInit
    /\ ConnIdle

\* What a step of the key-value operations leaves alone.
KvFrame == UNCHANGED prev /\ UNCHANGED connVars

\* Spec: client 1 alone, call after call, at most MaxCalls of them.
Next ==
    \/ calls[1] < MaxCalls /\ run_flushdb(1) /\ Interference(1) /\ KvFrame
    \/ /\ calls[1] < MaxCalls
       /\ \E pattern \in Patterns : delete_keys_matching_pattern_keys(1, pattern)
       /\ Interference(1) /\ KvFrame
    \/ delete_keys_matching_pattern_execute(1) /\ Interference(1) /\ KvFrame
    \/ /\ calls[1] < MaxCalls
       /\ \E key \in Keys, value \in PlainValues, overwrite \in BOOLEAN :
              set_value_of_single_value_key_get(1, key, value, overwrite, "none", FALSE)
       /\ Interference(1) /\ KvFrame
    \/ set_value_of_single_value_key_set(1) /\ Interference(1) /\ KvFrame
    \/ /\ calls[1] < MaxCalls
       /\ \E key \in Keys : get_value_of_single_value_key(1, key, "none", FALSE)
       /\ Interference(1) /\ KvFrame
    \/ /\ calls[1] < MaxCalls
       /\ \E key \in Keys, value \in PushValues :
              add_value_to_list_key(1, key, value, "none", FALSE)
       /\ Interference(1) /\ KvFrame
    \/ Return(1) /\ Interference(1) /\ KvFrame

Spec == Init /\ [][Next]_vars

(***************************************************************************)
(* SpecConc: two clients, each running set_single or delete_matching, the  *)
(* store commands of the two calls interleaved in every order; at most     *)
(* MaxConcCalls calls per client.                                          *)
(***************************************************************************)
ConcValues == {StrV1, StrV2}
ConcPatterns == {PatAll, PatA}
ConcEntries == {NoEntry, StrEntry(Utf8Encode(StrV1.s))}

InitConc ==
    /\ store \in [WireKeys -> ConcEntries]
    /\ KvInit
    /\ ConnIdle

NextConc ==
    \/ \E c \in Clients :
        /\ calls[c] < MaxConcCalls
        /\ \E pattern \in ConcPatterns : delete_keys_matching_pattern_keys(c, pattern)
        /\ Interference(c) /\ KvFrame
    \/ \E c \in Clients :
        delete_keys_matching_pattern_execute(c) /\ Interference(c) /\ KvFrame
    \/ \E c \in Clients :
        /\ calls[c] < MaxConcCalls
        /\ \E key \in Keys, value \in ConcValues, overwrite \in BOOLEAN :
               set_value_of_single_value_key_get(c, key, value, overwrite, "none", FALSE)
        /\ Interference(c) /\ KvFrame
    \/ \E c \in Clients :
        set_value_of_single_value_key_set(c) /\ Interference(c) /\ KvFrame
    \/ \E c \in Clients : Return(c) /\ Interference(c) /\ KvFrame

SpecConc == InitConc /\ [][NextConc]_vars

(***************************************************************************)
(* Claims about the key-value operations.                                  *)
(***************************************************************************)
WireKey(c) == Utf8Encode(op[c].key)
Snapshot(c) == {local[c].keys[i] : i \in 1..Len(local[c].keys)}
DoneWith(c, kind) == pc[c] = "done" /\ op[c].kind = kind

\* C1: a set_single call with overwrite=false on a key that exists when the
\* call begins returns false and writes nothing: whenever such a call read an
\* existing value (the reply of its GET is not None), it returned false.
C1_NeverOverwritesExisting ==
    \A c \in Clients :
        (DoneWith(c, "set") /\ ~op[c].overwrite /\ local[c].existing.t # "none")
            => result[c] = RetFalse

\* C3: flush_all, delete_matching, set_single and push_list return false,
\* and never raise, whenever one of their store commands fails.
C3_FailQuietly ==
    \A c \in Clients :
        (pc[c] = "done" /\ op[c].kind \in {"flush", "delete", "set", "push"}
                        /\ local[c].fault)
            => result[c] = RetFalse

\* C4: with no other client active, a delete_matching call whose store
\* commands succeed removes exactly the keys matching its pattern, leaves
\* every other key and its value as they were, and returns true (also when
\* no key matches, and nothing changes).
C4_DeletesExactlyMatching ==
    [][(pc[1] = "del_exec" /\ pc'[1] = "done" /\ ~local'[1].fault)
        => /\ result'[1] = RetTrue
           /\ store' = [k \in WireKeys |->
                          IF GlobMatch(Utf8Encode(op[1].pattern), k)
                          THEN NoEntry ELSE store[k]]]_vars

\* C4's case: "a:*" deleted a:1 and a:2, kept b:1, and returned true.
C4_Witness ==
    /\ DoneWith(1, "delete")
    /\ op[1].pattern = PatA
    /\ result[1] = RetTrue
    /\ Len(local[1].keys) = 2
    /\ store[Utf8Encode(KeyA1)] = NoEntry
    /\ store[Utf8Encode(KeyA2)] = NoEntry
    /\ store[Utf8Encode(KeyB1)] # NoEntry

\* C5: delete_matching returns true exactly when its batch ran without an
\* exception and every key of its snapshot was still there to be deleted
\* (each reply truthy); it returns false when the batch raises or a snapshot
\* key is gone when the batch runs (a 0 reply).
C5_DeleteResult ==
    [][\A c \in Clients :
        (pc[c] = "del_exec" /\ pc'[c] = "done")
            => /\ result'[c] \in {RetTrue, RetFalse}
               /\ result'[c] = RetTrue <=>
                    (~local'[c].fault /\ \A k \in Snapshot(c) : store[k].t # "none")]_vars

\* C5's case: the batch ran, a reply was 0 because another client had removed
\* the key, and the call returned false.
C5_Witness ==
    \E c \in Clients :
        /\ DoneWith(c, "delete")
        /\ ~local[c].fault
        /\ \E i \in 1..Len(local[c].values) : local[c].values[i] = 0
        /\ \E i \in 1..Len(local[c].values) : local[c].values[i] = 1
        /\ result[c] = RetFalse

\* C9: the delete batch is the snapshot of the one enumeration: when it runs
\* it removes the snapshot's keys and touches no other key, so a matching
\* key created after the enumeration survives.
C9_DeletesSnapshotOnly ==
    [][\A c \in Clients :
        (pc[c] = "del_exec" /\ pc'[c] = "done")
            => \A k \in WireKeys :
                 IF k \in Snapshot(c)
                 THEN store'[k] = NoEntry \/ (local'[c].fault /\ store' = store)
                 ELSE store'[k] = store[k]]_vars

\* C9's case: the call is over, its batch ran, and a key that matches its
\* pattern, created by the other client after the enumeration, is in the store.
C9_Witness ==
    \E c \in Clients :
        /\ DoneWith(c, "delete")
        /\ result[c] = RetTrue
        /\ local[c].keys # <<>>
        /\ interfered[c]
        /\ \E k \in WireKeys :
            /\ GlobMatch(Utf8Encode(op[c].pattern), k)
            /\ k \notin Snapshot(c)
            /\ store[k] # NoEntry

\* C10: the check and the write of set_single are two store commands with no
\* second check: a call that passed its check writes its value and returns
\* true whatever the key holds by then, replacing a value another call wrote
\* in between.
C10_WriteAfterCheck ==
    [][\A c \in Clients :
        (pc[c] = "set_write" /\ pc'[c] = "done" /\ ~local'[c].fault)
            => /\ result'[c] = RetTrue
               /\ store'[WireKey(c)] = StrEntry(Utf8Encode(op[c].value.s))]_vars

\* C10's case: both calls had overwrite=false and found the key absent, both
\* returned true, and the key holds the value of client 2, not that of
\* client 1.
C10_Witness ==
    /\ DoneWith(1, "set") /\ DoneWith(2, "set")
    /\ op[1].key = op[2].key
    /\ ~op[1].overwrite /\ ~op[2].overwrite
    /\ local[1].existing = PyNone /\ local[2].existing = PyNone
    /\ result[1] = RetTrue /\ result[2] = RetTrue
    /\ op[1].value # op[2].value
    /\ store[WireKey(2)] = StrEntry(Utf8Encode(op[2].value.s))

(***************************************************************************)
(* SpecRT: client 1 alone on an empty store, writing JSON values with      *)
(* set_single and reading them back with get_single, with and without the  *)
(* byte encoding; prev remembers the call before the current one.          *)
(***************************************************************************)
CharsA == <<"a">>
CharsTricky == <<"b", "\"", "\\", " ", ",">>
JsonDictA1 == PyDict(<<CharsA>>, <<PyInt(1)>>)
JsonNested ==
    PyDict(<<CharsA, CharsTricky>>,
           <<PyList(<<PyInt(10), JsonDictA1, PyNone>>), PyStr(CharsTricky)>>)
JsonValues ==
    {PyNone, PyBool(TRUE), PyBool(FALSE), PyInt(0), PyInt(120),
     PyStr(<<>>), PyStr(CharsTricky), PyList(<<>>), PyDict(<<>>, <<>>),
     PyList(<<PyInt(1), PyStr(CharsA), PyList(<<PyBool(TRUE)>>)>>),
     JsonDictA1, JsonNested}
RTKeys == {KeyA1}

InitRT ==
    /\ store = EmptyStore
    /\ KvInit
    /\ ConnIdle

NextRT ==
    \/ /\ calls[1] < MaxCalls
       /\ \E key \in RTKeys, value \in JsonValues, overwrite \in BOOLEAN, enc \in BOOLEAN :
              set_value_of_single_value_key_get(1, key, value, overwrite, "json", enc)
       /\ Interference(1) /\ KvFrame
    \/ set_value_of_single_value_key_set(1) /\ Interference(1) /\ KvFrame
    \/ /\ calls[1] < MaxCalls
       /\ \E key \in RTKeys, dec \in BOOLEAN :
              get_value_of_single_value_key(1, key, "json", dec)
       /\ Interference(1) /\ KvFrame
    \/ /\ Return(1) /\ Interference(1)
       /\ prev' = <<[op |-> op[1], result |-> result[1]]>>
       /\ UNCHANGED connVars

SpecRT == InitRT /\ [][NextRT]_vars

\* A get_single with value_format="json" has returned or raised, right after
\* a successful set_single with value_format="json" of the same key whose
\* value_encode is the get's value_decode, and its GET did not fail.
ReadBack ==
    /\ DoneWith(1, "get")
    /\ ~local[1].fault
    /\ prev # <<>>
    /\ prev[1].op.kind = "set"
    /\ prev[1].result = RetTrue
    /\ prev[1].op.key = op[1].key
    /\ prev[1].op.fmt = "json" /\ op[1].fmt = "json"
    /\ prev[1].op.enc = op[1].dec

\* C7: a successful set_single(key, value, value_format="json"), with or
\* without value_encode, followed by get_single(key, value_format="json")
\* with value_decode set the same way returns a value equal to the one set.
C7_RoundTrip == ReadBack => result[1] = RetValue(prev[1].op.value)

\* C7's case: a nested dict written encoded and read back decoded.
C7_Witness ==
    /\ ReadBack
    /\ op[1].dec
    /\ prev[1].op.value = JsonNested
    /\ result[1].ret = "value"

(***************************************************************************)
(* The connection manager.  A call is get_redis_connection(...) itself     *)
(* (via "direct") or a function decorated with get_redis_connector(...)    *)
(* (via "decorator"); given holds the names of the optional parameters the *)
(* caller supplied, uargs the arguments the decorated function was called  *)
(* with.  A session is named by the index of the constructor call that     *)
(* made it.                                                                *)
(***************************************************************************)
DefaultPort == 6379
DefaultDb == 0

Host == "redis_host"
GivenPorts == {46379}
GivenDbs == {7}
PwEmpty == PyStr(<<>>)
PwSecret == PyStr(<<"s", "e", "t">>)
GivenPasswords == {PwEmpty, PwSecret}

Handle(id) == [kind |-> "handle", n |-> id]
Arg(i) == [kind |-> "arg", n |-> i]
UnitArgLists == {<<>>, <<Arg(1), Arg(2)>>}
UnitOutputs == {"out_a", "out_b"}

\* The calls made: only host supplied, one optional parameter supplied, or
\* all three.
GivenSets == {{}, {"port"}, {"db"}, {"password"}, {"port", "db", "password"}}

ConnCalls ==
    {a \in [via : {"direct", "decorator"}, host : {Host}, given : GivenSets,
            port : GivenPorts \cup {DefaultPort}, db : GivenDbs \cup {DefaultDb},
            password : GivenPasswords \cup {PyNone}, uargs : UnitArgLists] :
        /\ ("port" \in a.given) = (a.port \in GivenPorts)
        /\ ("db" \in a.given) = (a.db \in GivenDbs)
        /\ ("password" \in a.given) = (a.password \in GivenPasswords)
        /\ (a.via = "direct") = (a.uargs = <<>>)}

\* The parameters as the function body sees them: what was given, else the
\* defaults of the signature (port=6379, password=None, db=0).
Params(a) ==
    [host |-> a.host,
     port |-> IF "port" \in a.given THEN a.port ELSE DefaultPort,
     db |-> IF "db" \in a.given THEN a.db ELSE DefaultDb,
     password |-> IF "password" \in a.given THEN a.password ELSE PyNone]

\* Constructor arguments that leave db to the constructor's default.
CtorKwargsWithoutDb(q) ==
    [host |-> q.host, port |-> q.port, db |-> DefaultDb,
     has_password |-> Truthy(q.password),
     password |-> IF Truthy(q.password) THEN q.password ELSE PyNone]

\* The keyword arguments of redis.StrictRedis(...): password only `if password`.
CtorKwargs(q) ==
    [host |-> q.host, port |-> q.port, db |-> q.db,
     has_password |-> Truthy(q.password),
     password |-> IF Truthy(q.password) THEN q.password ELSE PyNone]

\* A probe whose failure is swallowed.
ProbeOutcomeSwallowed(probed, session) == [ret |-> "handle", handle |-> session, out |-> ""]

\* try: ... redis_con.keys() / except: log, raise / return redis_con
ProbeOutcome(probed, session) ==
    IF probed THEN [ret |-> "handle", handle |-> session, out |-> ""]
    ELSE [ret |-> "raised", handle |-> 0, out |-> ""]

\* The handle after the caller's arguments.
UnitArgsHandleLast(handle, uargs) == uargs \o <<Handle(handle)>>

\* f(redis_con, *args, **kwargs)
UnitArgs(handle, uargs) == <<Handle(handle)>> \o uargs

\* get_redis_connection up to the constructor: the session is made, or the
\* constructor raises and the call ends with that exception.  A decorated
\* function's call begins here too: with_connection calls
\* get_redis_connection(host, port=port, password=password, db=db) first.
get_redis_connection_construct(a) ==
    /\ cpc = "idle"
    /\ ncalls < MaxConnCalls
    /\ ncalls' = ncalls + 1
    /\ cargs' = <<a>>
    /\ cstart' = <<Len(ctorLog), Len(probeLog), Len(unitLog)>>
    /\ UNCHANGED <<probeLog, unitLog>>
    /\ \E made \in BOOLEAN :
        /\ ctorLog' = Append(ctorLog, [kwargs |-> CtorKwargs(Params(a)), ok |-> made])
        /\ IF made
           THEN cpc' = "probe" /\ cresult' = <<>>
           ELSE cpc' = "done" /\ cresult' = <<[ret |-> "raised", handle |-> 0, out |-> ""]>>

\* get_redis_connection from redis_con.keys() on: the probe, then the handle
\* or the probe's exception.
get_redis_connection_probe ==
    /\ cpc = "probe"
    /\ UNCHANGED <<cargs, ctorLog, unitLog, cstart, ncalls>>
    /\ \E probed \in BOOLEAN :
        LET session == Len(ctorLog)
            r == ProbeOutcome(probed, session)
        IN /\ probeLog' = Append(probeLog, [session |-> session, ok |-> probed])
           /\ IF r.ret = "handle" /\ cargs[1].via = "decorator"
              THEN cpc' = "invoke" /\ cresult' = <<r>>
              ELSE cpc' = "done" /\ cresult' = <<r>>

\* with_connection after get_redis_connection returned: the decorated
\* function is called and its output returned.
with_connection_invoke ==
    /\ cpc = "invoke"
    /\ UNCHANGED <<cargs, ctorLog, probeLog, cstart, ncalls>>
    /\ \E output \in UnitOutputs :
        /\ unitLog' = Append(unitLog,
               [args |-> UnitArgs(cresult[1].handle, cargs[1].uargs), out |-> output])
        /\ cresult' = <<[ret |-> "value", handle |-> cresult[1].handle, out |-> output]>>
        /\ cpc' = "done"

\* The caller takes the result.
ConnReturn ==
    /\ cpc = "done"
    /\ cpc' = "idle"
    /\ cargs' = <<>>
    /\ cresult' = <<>>
    /\ UNCHANGED <<ctorLog, probeLog, unitLog, cstart, ncalls>>

InitConn ==
    /\ store = EmptyStore
    /\ KvInit
    /\ ConnIdle

NextConn ==
    \/ (\E a \in ConnCalls : get_redis_connection_construct(a)) /\ UNCHANGED kvVars
    \/ get_redis_connection_probe /\ UNCHANGED kvVars
    \/ with_connection_invoke /\ UNCHANGED kvVars
    \/ ConnReturn /\ UNCHANGED kvVars

SpecConn == InitConn /\ [][NextConn]_vars

(***************************************************************************)
(* Claims about the connection manager.                                    *)
(***************************************************************************)
CtorsOfCall == Len(ctorLog) - cstart[1]
ProbesOfCall == Len(probeLog) - cstart[2]
UnitsOfCall == Len(unitLog) - cstart[3]
LastCtor == ctorLog[Len(ctorLog)]
LastProbe == probeLog[Len(probeLog)]
\* The running call's get_redis_connection has returned a handle.
Acquired == cpc = "invoke" \/ (cpc = "done" /\ cresult[1].ret \in {"handle", "value"})
ProbeFailed == ProbesOfCall = 1 /\ ~LastProbe.ok

\* C2: get_redis_connection returns a handle only once the session was
\* constructed and its keys() probe succeeded, and then the handle is that
\* session; a failed construction or probe reaches the caller as the
\* exception; and a call constructs once and probes at most once (no retry).
C2_FailFast ==
    /\ cpc # "idle" => (CtorsOfCall = 1 /\ ProbesOfCall <= 1)
    /\ Acquired =>
        /\ LastCtor.ok
        /\ ProbesOfCall = 1
        /\ LastProbe = [session |-> Len(ctorLog), ok |-> TRUE]
        /\ cresult[1].handle = Len(ctorLog)
    /\ (cpc = "done" /\ (~LastCtor.ok \/ ProbeFailed)) => cresult[1].ret = "raised"

\* C2's case: the store is down, the probe of a direct call failed, and the
\* caller got the exception.
C2_Witness ==
    /\ cpc = "done"
    /\ cargs[1].via = "direct"
    /\ LastCtor.ok
    /\ ProbeFailed
    /\ cresult[1].ret = "raised"

\* C6, as claimed: one constructor call per call, with port=6379 and db=0
\* and no password when only host is supplied, and every supplied port, db
\* and password passed exactly as given.
C6_ParamsUnchanged ==
    cpc # "idle" =>
        LET a == cargs[1]
            k == LastCtor.kwargs
        IN /\ CtorsOfCall = 1
           /\ k.host = a.host
           /\ k.port = (IF "port" \in a.given THEN a.port ELSE 6379)
           /\ k.db = (IF "db" \in a.given THEN a.db ELSE 0)
           /\ IF "password" \in a.given
              THEN k.has_password /\ k.password = a.password
              ELSE ~k.has_password

\* C6, amended: as above, but a password is passed (exactly as given) only
\* when it is non-empty; an empty password is left out like an absent one.
C6_ParamsUnchangedUnlessEmptyPassword ==
    cpc # "idle" =>
        LET a == cargs[1]
            k == LastCtor.kwargs
        IN /\ CtorsOfCall = 1
           /\ k.host = a.host
           /\ k.port = (IF "port" \in a.given THEN a.port ELSE 6379)
           /\ k.db = (IF "db" \in a.given THEN a.db ELSE 0)
           /\ IF "password" \in a.given /\ a.password.s # <<>>
              THEN k.has_password /\ k.password = a.password
              ELSE ~k.has_password

\* C6's case: port, db and a non-empty password were supplied and the
\* constructor got all three.
C6_Witness ==
    /\ cpc # "idle"
    /\ cargs[1].given = {"port", "db", "password"}
    /\ cargs[1].password = PwSecret
    /\ LastCtor.kwargs =
         [host |-> Host, port |-> 46379, db |-> 7, has_password |-> TRUE,
          password |-> PwSecret]

\* C8: a call of a decorated function first acquires a handle of its own (a
\* session no earlier invocation was given), then calls the function once
\* with that handle before the caller's arguments and returns its output;
\* if the acquisition fails the function is not called and the caller gets
\* the exception.
C8_AcquireThenInvoke ==
    /\ cpc = "probe" => UnitsOfCall = 0
    /\ (cpc = "done" /\ cargs[1].via = "decorator") =>
        IF LastCtor.ok /\ ~ProbeFailed
        THEN /\ CtorsOfCall = 1
             /\ UnitsOfCall = 1
             /\ unitLog[Len(unitLog)].args = <<Handle(Len(ctorLog))>> \o cargs[1].uargs
             /\ \A i \in 1..(Len(unitLog) - 1) :
                    Handle(Len(ctorLog)) \notin {unitLog[i].args[j] : j \in 1..Len(unitLog[i].args)}
             /\ cresult[1].ret = "value"
             /\ cresult[1].out = unitLog[Len(unitLog)].out
        ELSE UnitsOfCall = 0 /\ cresult[1].ret = "raised"

\* C8's case: the second call of a decorated function with two arguments
\* has returned the function's output.
C8_Witness ==
    /\ cpc = "done"
    /\ cargs[1].via = "decorator"
    /\ cargs[1].uargs = <<Arg(1), Arg(2)>>
    /\ Len(unitLog) = 2
    /\ cresult[1].ret = "value"

=============================================================================
